---- MODULE Spec2Model ----
(***************************************************************************)
(* Model of the LogDNA backend of package log (src/log/logdna.go): the     *)
(* payload buffer (Write / Flush / Size), client.send, dnalog.Log,         *)
(* dnalog.Close, monitor.run and the newDNALogger singleton.               *)
(*                                                                         *)
(* A step is one access to shared memory (a lock taken together with the   *)
(* read that follows it, a write together with the unlock that follows     *)
(* it), one channel operation or the return of the HTTP POST, so that the  *)
(* interleavings of producers, asynchronous sends, the monitor goroutine   *)
(* and Close are explored.                                                 *)
(***************************************************************************)
EXTENDS Integers, Sequences, FiniteSets, TLC

(* ---------------- program constants ---------------- *)
maxNumLines == 100

(* ---------------- bounds of the model ---------------- *)
NumThreads  == 3      \* application threads calling newDNALogger / Log / Close
NumSlots    == 2      \* goroutines of `go l.client.send(false)` running at once
MaxAdapters == 2      \* calls of newDNALogger
MaxLogs     == 2      \* calls of Log in the general specification
MaxCloses   == 1      \* calls of Close
MaxBad      == 1      \* records whose meta cannot be marshalled
FillSlack   == 5      \* records logged beyond the threshold in the threshold scenario
FillLogs    == maxNumLines + FillSlack
NearGap     == 1      \* records missing to the threshold when the mixed scenario starts
NearLogs    == 2      \* calls of Log in the mixed scenario
MaxKv       == 3      \* length of the keyvals passed to Log in the keyvals scenario

(* ---------------- processes ---------------- *)
Mon     == 0
Threads == 1..NumThreads
Gors    == (NumThreads + 1)..(NumThreads + NumSlots)
Procs   == {Mon} \cup Threads \cup Gors
None    == -1         \* an unlocked mutex / a nil pointer is 0 for clients

VARIABLES
    apikey,          \* os.Getenv("PP_LOG_KEY"): "" or a key
    globalClient,    \* var globalClient *client: 0 is nil, else the client's number
    dnaGlobalLock,   \* holder of dnaGlobalLock, or None
    clientsCreated,  \* number of &client{...} constructed
    monitorsStarted, \* number of `go m.run()` executed
    adapters,        \* the dnalog values returned so far: their client field
    newCalls,        \* calls of newDNALogger started
    Lines,           \* payload.Lines
    pmu,             \* holder of payload.mu (write lock), or None
    cmu,             \* holder of client.mu, or None
    done,            \* number of elements in monitor.done (capacity 1)
    pc,              \* position of every process
    cur,             \* thread local: the adapter l of the running Log / Close
    rec,             \* thread local: the line built by Log
    tmp,             \* thread local: p.Lines as read by append
    ready,           \* thread local: readytosend
    cref,            \* thread local: c of newDNALogger
    body,            \* sender local: result of json.Marshal
    spawned,         \* goroutines created by `go l.client.send(false)`, not yet running
    nlogs,           \* calls of Log started
    nbad,            \* unmarshallable records built
    ncloses,         \* calls of Close started
    posts,           \* the HTTP POSTs performed: payload and outcome
    forwarded,       \* calls of l.next.Log
    written,         \* ids of the lines appended by Write since the last Flush
    err,             \* sender local: json.Marshal returned an error
    resp,            \* sender local: what http.Post returned ("none" before it returns)
    batch,           \* sender local: the lines in the buffer when json.Marshal ran
    dispatched       \* number of `go l.client.send(false)` executed

vars == <<apikey, globalClient, dnaGlobalLock, clientsCreated, monitorsStarted,
          adapters, newCalls, Lines, pmu, cmu, done, pc, cur, rec, tmp, ready,
          cref, body, spawned, nlogs, nbad, ncloses, posts, forwarded, written,
          err, resp, batch, dispatched>>

registry == <<apikey, globalClient, dnaGlobalLock, clientsCreated, monitorsStarted, newCalls>>
counters == <<nlogs, nbad, ncloses>>
locals   == <<cur, rec, tmp, ready, cref>>
slocals  == <<body, err, resp, batch>>

NoRec == [id |-> 0, ok |-> TRUE]

(* ---------------- pure functions ---------------- *)

\* json.Marshal(c.payload): fails when some line holds a value encoding/json
\* rejects (a channel, a func, NaN ... in Meta); otherwise the lines in order.
MarshalErr(ls) == \E i \in 1..Len(ls) : ~ls[i].ok
Marshal(ls) == IF MarshalErr(ls) THEN <<>> ELSE ls

Ids(ls) == {ls[i].id : i \in 1..Len(ls)}

\* where a process continues when send returns
AfterSend(p) == IF p = Mon THEN "select" ELSE IF p \in Threads THEN "signal" ELSE "idle"

\* The values passed in keyvals: s is what fmt.Sprintf("%v", val) yields, str
\* whether the dynamic type is string, enc whether encoding/json accepts it.
KvMsg   == [s |-> "msg",   str |-> TRUE,  enc |-> TRUE]
KvLevel == [s |-> "level", str |-> TRUE,  enc |-> TRUE]
KvText  == [s |-> "user",  str |-> TRUE,  enc |-> TRUE]
KvInt   == [s |-> "7",     str |-> FALSE, enc |-> TRUE]
KvChan  == [s |-> "0xc0",  str |-> FALSE, enc |-> FALSE]
KvVals  == {KvMsg, KvLevel, KvText, KvInt, KvChan}

RECURSIVE SeqsUpTo(_, _)
SeqsUpTo(S, n) ==
    IF n = 0 THEN {<<>>}
    ELSE LET shorter == SeqsUpTo(S, n - 1)
         IN  shorter \cup {Append(q, v) : q \in {r \in shorter : Len(r) = n - 1}, v \in S}

Keyvals == SeqsUpTo(KvVals, MaxKv)

\* The loop of Log over keyvals, from the 0-based index i on: st.panic is set
\* where keyvals[i+1] does not exist or the assertion keyvals[i+1].(string)
\* fails, and the loop ends there.
ParseStart == [panic |-> FALSE, msg |-> "", lvl |-> "info", meta |-> <<>>]

MetaPut(m, k, v) == [x \in DOMAIN m \cup {k} |-> IF x = k THEN v ELSE m[x]]

RECURSIVE ParseFrom(_, _, _)
ParseFrom(kv, i, st) ==
    IF i >= Len(kv) THEN st
    ELSE LET val   == kv[i + 1]
             has   == i + 1 < Len(kv)
             nxt   == kv[i + 2]
             Fail  == [st EXCEPT !.panic = TRUE]
         IN  IF val.s = "msg"
                THEN IF has /\ nxt.str
                        THEN ParseFrom(kv, i + 1, [st EXCEPT !.msg = nxt.s])
                        ELSE Fail
             ELSE IF val.s = "level"
                THEN IF has
                        THEN ParseFrom(kv, i + 1, [st EXCEPT !.lvl = nxt.s])
                        ELSE Fail
             ELSE IF i % 2 = 0
                THEN IF has
                        THEN ParseFrom(kv, i + 1, [st EXCEPT !.meta = MetaPut(@, val.s, nxt)])
                        ELSE Fail
             ELSE ParseFrom(kv, i + 1, st)

Parse(kv) == ParseFrom(kv, 0, ParseStart)

\* whether json.Marshal accepts the line built from keyvals
Encodable(kv) == \A k \in DOMAIN Parse(kv).meta : Parse(kv).meta[k].enc

(* ---------------- initial states ---------------- *)
InitWith(keys) ==
    /\ apikey \in keys
    /\ globalClient = 0
    /\ dnaGlobalLock = None
    /\ clientsCreated = 0
    /\ monitorsStarted = 0
    /\ adapters = <<>>
    /\ newCalls = 0
    /\ Lines = <<>>
    /\ pmu = None
    /\ cmu = None
    /\ done = 0
    /\ pc = [p \in Procs |-> IF p = Mon THEN "off" ELSE "idle"]
    /\ cur = [t \in Threads |-> 0]
    /\ rec = [t \in Threads |-> NoRec]
    /\ tmp = [t \in Threads |-> <<>>]
    /\ ready = [t \in Threads |-> FALSE]
    /\ cref = [t \in Threads |-> 0]
    /\ body = [p \in Procs |-> <<>>]
    /\ spawned = 0
    /\ nlogs = 0
    /\ nbad = 0
    /\ ncloses = 0
    /\ posts = <<>>
    /\ forwarded = 0
    /\ written = {}
    /\ err = [p \in Procs |-> FALSE]
    /\ resp = [p \in Procs |-> "none"]
    /\ batch = [p \in Procs |-> <<>>]
    /\ dispatched = 0

Init == InitWith({"", "key"})

(* ---------------- newDNALogger ---------------- *)

\* variant: the client is created whether or not the key is set
NewStartAlways(t, max) ==
    /\ pc[t] = "idle"
    /\ newCalls < max
    /\ newCalls' = newCalls + 1
    /\ cref' = [cref EXCEPT ![t] = 0]
    /\ pc' = [pc EXCEPT ![t] = "glock"]
    /\ UNCHANGED <<apikey, globalClient, dnaGlobalLock, clientsCreated, monitorsStarted,
                   adapters, Lines, pmu, cmu, done, cur, rec, tmp, ready, slocals,
                   spawned, counters, posts, forwarded, written, dispatched>>

\* apikey := os.Getenv("PP_LOG_KEY"); if apikey != "" { dnaGlobalLock.Lock() ...
NewStart(t, max) ==
    /\ pc[t] = "idle"
    /\ newCalls < max
    /\ newCalls' = newCalls + 1
    /\ cref' = [cref EXCEPT ![t] = 0]
    /\ pc' = [pc EXCEPT ![t] = IF apikey # "" THEN "glock" ELSE "newret"]
    /\ UNCHANGED <<apikey, globalClient, dnaGlobalLock, clientsCreated, monitorsStarted,
                   adapters, Lines, pmu, cmu, done, cur, rec, tmp, ready, slocals,
                   spawned, counters, posts, forwarded, written, dispatched>>

\* variant: the check of globalClient is not guarded by dnaGlobalLock
NewLockNoExclusion(t) ==
    /\ pc[t] = "glock"
    /\ dnaGlobalLock' = t
    /\ pc' = [pc EXCEPT ![t] = IF globalClient = 0 THEN "gcreate" ELSE "newret"]
    /\ UNCHANGED <<apikey, globalClient, clientsCreated, monitorsStarted, newCalls,
                   adapters, Lines, pmu, cmu, done, locals, slocals,
                   spawned, counters, posts, forwarded, written, dispatched>>

\* dnaGlobalLock.Lock(); if globalClient == nil
NewLock(t) ==
    /\ pc[t] = "glock"
    /\ dnaGlobalLock = None
    /\ dnaGlobalLock' = t
    /\ pc' = [pc EXCEPT ![t] = IF globalClient = 0 THEN "gcreate" ELSE "newret"]
    /\ UNCHANGED <<apikey, globalClient, clientsCreated, monitorsStarted, newCalls,
                   adapters, Lines, pmu, cmu, done, locals, slocals,
                   spawned, counters, posts, forwarded, written, dispatched>>

\* globalClient = &client{...}; m := &monitor{...}; go m.run(); c = globalClient
NewCreate(t) ==
    /\ pc[t] = "gcreate"
    /\ clientsCreated' = clientsCreated + 1
    /\ globalClient' = clientsCreated + 1
    /\ monitorsStarted' = monitorsStarted + 1
    /\ cref' = [cref EXCEPT ![t] = clientsCreated + 1]
    /\ pc' = [pc EXCEPT ![t] = "newret", ![Mon] = "select"]
    /\ UNCHANGED <<apikey, dnaGlobalLock, newCalls, adapters, Lines, pmu, cmu, done,
                   cur, rec, tmp, ready, slocals, spawned, counters, posts, forwarded, written, dispatched>>

\* return &dnalog{next: next, client: c}, then the deferred dnaGlobalLock.Unlock()
NewReturn(t) ==
    /\ pc[t] = "newret"
    /\ adapters' = Append(adapters, cref[t])
    /\ dnaGlobalLock' = IF dnaGlobalLock = t THEN None ELSE dnaGlobalLock
    /\ cref' = [cref EXCEPT ![t] = 0]
    /\ pc' = [pc EXCEPT ![t] = "idle"]
    /\ UNCHANGED <<apikey, globalClient, clientsCreated, monitorsStarted, newCalls,
                   Lines, pmu, cmu, done, cur, rec, tmp, ready, slocals,
                   spawned, counters, posts, forwarded, written, dispatched>>

(* ---------------- dnalog.Log ---------------- *)

\* Log and Close read l.client again after their nil check, and Close writes
\* it, without synchronisation: such a read yields the field's current value
\* or the client seen at the nil check.  Dereferencing nil panics.
ClientRead(t) == {adapters[cur[t]], globalClient}

\* if l.client != nil { ... build the line ... l.client.payload.Write(line{...})
\* ok: whether every value put into Meta can be encoded by encoding/json.
\* With l.client == nil, Log only calls l.next.Log and returns.
LogStart(t, a, ok, max) ==
    /\ pc[t] = "idle"
    /\ a \in 1..Len(adapters)
    /\ nlogs < max
    /\ ok \/ nbad < MaxBad
    /\ nlogs' = nlogs + 1
    /\ IF adapters[a] # 0
          THEN /\ rec' = [rec EXCEPT ![t] = [id |-> nlogs + 1, ok |-> ok]]
               /\ nbad' = IF ok THEN nbad ELSE nbad + 1
               /\ cur' = [cur EXCEPT ![t] = a]
               /\ pc' = [pc EXCEPT ![t] = "wlock"]
               /\ UNCHANGED forwarded
          ELSE /\ ok
               /\ forwarded' = forwarded + 1
               /\ UNCHANGED <<rec, nbad, cur, pc>>
    /\ UNCHANGED <<registry, adapters, Lines, pmu, cmu, done, tmp, ready, cref, slocals,
                   spawned, ncloses, posts, written, dispatched>>

\* Log(keyvals...) with the loop over keyvals: an index out of range or a
\* failed type assertion panics in the caller, before Write and before
\* l.next.Log; otherwise Log goes on as in LogStart, the line being
\* marshallable when its Meta is.  With l.client == nil the loop is skipped.
LogKeyvals(t, a, kv, max) ==
    /\ kv \in Keyvals
    /\ a \in 1..Len(adapters)
    /\ IF adapters[a] # 0 /\ Parse(kv).panic
          THEN /\ pc[t] = "idle"
               /\ nlogs < max
               /\ nlogs' = nlogs + 1
               /\ pc' = [pc EXCEPT ![t] = "panic"]
               /\ UNCHANGED <<registry, adapters, Lines, pmu, cmu, done, locals, slocals,
                              spawned, nbad, ncloses, posts, forwarded, written, dispatched>>
          ELSE LogStart(t, a, adapters[a] = 0 \/ Encodable(kv), max)

\* variant: Write appends without excluding the other writers
WriteLockNoExclusion(t) ==
    /\ pc[t] = "wlock"
    /\ \E c \in ClientRead(t) :
          IF c = 0
             THEN /\ pc' = [pc EXCEPT ![t] = "panic"]
                  /\ UNCHANGED <<pmu, tmp>>
             ELSE /\ pmu' = t
                  /\ tmp' = [tmp EXCEPT ![t] = Lines]
                  /\ pc' = [pc EXCEPT ![t] = "wstore"]
    /\ UNCHANGED <<registry, adapters, Lines, cmu, done, cur, rec, ready, cref, slocals,
                   spawned, counters, posts, forwarded, written, dispatched>>

\* l.client.payload.Write(line{... l.client.hostname ...}), and in Write:
\* p.mu.Lock(), then the read of p.Lines in append(p.Lines, l)
WriteLock(t) ==
    /\ pc[t] = "wlock"
    /\ \E c \in ClientRead(t) :
          IF c = 0
             THEN /\ pc' = [pc EXCEPT ![t] = "panic"]
                  /\ UNCHANGED <<pmu, tmp>>
             ELSE /\ pmu = None
                  /\ pmu' = t
                  /\ tmp' = [tmp EXCEPT ![t] = Lines]
                  /\ pc' = [pc EXCEPT ![t] = "wstore"]
    /\ UNCHANGED <<registry, adapters, Lines, cmu, done, cur, rec, ready, cref, slocals,
                   spawned, counters, posts, forwarded, written, dispatched>>

\* variant: readytosend := len(p.Lines) > maxNumLines
WriteStoreStrict(t) ==
    /\ pc[t] = "wstore"
    /\ Lines' = Append(tmp[t], rec[t])
    /\ ready' = [ready EXCEPT ![t] = Len(Lines') > maxNumLines]
    /\ written' = written \cup {rec[t].id}
    /\ tmp' = [tmp EXCEPT ![t] = <<>>]
    /\ pmu' = None
    /\ pc' = [pc EXCEPT ![t] = "dispatch"]
    /\ UNCHANGED <<registry, adapters, cmu, done, cur, rec, cref, slocals,
                   spawned, counters, posts, forwarded, dispatched>>

\* variant: readytosend is computed from the length before the append
WriteStoreBefore(t) ==
    /\ pc[t] = "wstore"
    /\ Lines' = Append(tmp[t], rec[t])
    /\ ready' = [ready EXCEPT ![t] = Len(tmp[t]) >= maxNumLines]
    /\ written' = written \cup {rec[t].id}
    /\ tmp' = [tmp EXCEPT ![t] = <<>>]
    /\ pmu' = None
    /\ pc' = [pc EXCEPT ![t] = "dispatch"]
    /\ UNCHANGED <<registry, adapters, cmu, done, cur, rec, cref, slocals,
                   spawned, counters, posts, forwarded, dispatched>>

\* payload.Write: p.Lines = append(...); readytosend := len(p.Lines) >= maxNumLines;
\* p.mu.Unlock(); return readytosend
WriteStore(t) ==
    /\ pc[t] = "wstore"
    /\ Lines' = Append(tmp[t], rec[t])
    /\ ready' = [ready EXCEPT ![t] = Len(Lines') >= maxNumLines]
    /\ written' = written \cup {rec[t].id}
    /\ tmp' = [tmp EXCEPT ![t] = <<>>]
    /\ pmu' = None
    /\ pc' = [pc EXCEPT ![t] = "dispatch"]
    /\ UNCHANGED <<registry, adapters, cmu, done, cur, rec, cref, slocals,
                   spawned, counters, posts, forwarded, dispatched>>

\* variant: Log starts no goroutine
LogDispatchNoGo(t) ==
    /\ pc[t] = "dispatch"
    /\ forwarded' = forwarded + 1
    /\ ready' = [ready EXCEPT ![t] = FALSE]
    /\ rec' = [rec EXCEPT ![t] = NoRec]
    /\ cur' = [cur EXCEPT ![t] = 0]
    /\ pc' = [pc EXCEPT ![t] = "idle"]
    /\ UNCHANGED <<registry, adapters, Lines, pmu, cmu, done, tmp, cref, slocals,
                   spawned, counters, posts, written, dispatched>>

\* if readytosend { go l.client.send(false) }
\* if l.next != nil { return l.next.Log(keyvals...) }; return nil
\* A goroutine started on a nil client panics at c.mu.Lock(), which ends the
\* program: the thread is then taken not to go on.
LogDispatch(t) ==
    /\ pc[t] = "dispatch"
    /\ \E c \in ClientRead(t) :
          IF ready[t] /\ c = 0
             THEN /\ pc' = [pc EXCEPT ![t] = "panic"]
                  /\ UNCHANGED <<spawned, dispatched, forwarded, ready, rec, cur>>
             ELSE /\ spawned' = IF ready[t] THEN spawned + 1 ELSE spawned
                  /\ dispatched' = IF ready[t] THEN dispatched + 1 ELSE dispatched
                  /\ forwarded' = forwarded + 1
                  /\ ready' = [ready EXCEPT ![t] = FALSE]
                  /\ rec' = [rec EXCEPT ![t] = NoRec]
                  /\ cur' = [cur EXCEPT ![t] = 0]
                  /\ pc' = [pc EXCEPT ![t] = "idle"]
    /\ UNCHANGED <<registry, adapters, Lines, pmu, cmu, done, tmp, cref, slocals,
                   counters, posts, written>>

\* the goroutine of `go l.client.send(false)` starts running
GoStart(g) ==
    /\ g \in Gors
    /\ spawned > 0
    /\ pc[g] = "idle"
    /\ \A h \in Gors : h < g => pc[h] # "idle"
    /\ spawned' = spawned - 1
    /\ pc' = [pc EXCEPT ![g] = "lockc"]
    /\ UNCHANGED <<registry, adapters, Lines, pmu, cmu, done, locals, slocals,
                   counters, posts, forwarded, written, dispatched>>

(* ---------------- client.send ---------------- *)

\* variant: send does not wait for c.mu
SendLockNoExclusion(p) ==
    /\ pc[p] = "lockc"
    /\ cmu' = p
    /\ pc' = [pc EXCEPT ![p] = "size"]
    /\ UNCHANGED <<registry, adapters, Lines, pmu, done, locals, slocals,
                   spawned, counters, posts, forwarded, written, dispatched>>

\* c.mu.Lock()
SendLock(p) ==
    /\ pc[p] = "lockc"
    /\ cmu = None
    /\ cmu' = p
    /\ pc' = [pc EXCEPT ![p] = "size"]
    /\ UNCHANGED <<registry, adapters, Lines, pmu, done, locals, slocals,
                   spawned, counters, posts, forwarded, written, dispatched>>

\* variant: send does not return on an empty buffer
SendSizeNoCheck(p) ==
    /\ pc[p] = "size"
    /\ pmu = None
    /\ pc' = [pc EXCEPT ![p] = "plock"]
    /\ UNCHANGED <<registry, adapters, Lines, pmu, cmu, done, locals, slocals,
                   spawned, counters, posts, forwarded, written, dispatched>>

\* if c.payload.Size() == 0 { return }      (Size takes and releases the read lock)
SendSize(p) ==
    /\ pc[p] = "size"
    /\ pmu = None
    /\ pc' = [pc EXCEPT ![p] = IF Len(Lines) = 0 THEN "unlockc" ELSE "plock"]
    /\ UNCHANGED <<registry, adapters, Lines, pmu, cmu, done, locals, slocals,
                   spawned, counters, posts, forwarded, written, dispatched>>

\* c.payload.mu.Lock(); body, err := json.Marshal(c.payload); if err != nil { return }
\* otherwise the request is built and http.Post is called
SendMarshal(p) ==
    /\ pc[p] = "plock"
    /\ pmu = None
    /\ pmu' = p
    /\ body' = [body EXCEPT ![p] = Marshal(Lines)]
    /\ err' = [err EXCEPT ![p] = MarshalErr(Lines)]
    /\ batch' = [batch EXCEPT ![p] = Lines]
    /\ pc' = [pc EXCEPT ![p] = IF MarshalErr(Lines) THEN "punlock" ELSE "post"]
    /\ UNCHANGED <<registry, adapters, Lines, cmu, done, locals, resp,
                   spawned, counters, posts, forwarded, written, dispatched>>

\* http.Post returns: a transport error, or a response with a status code
PostOutcomes == {"error", "ok", "rejected"}

SendPost(p, outcome) ==
    /\ pc[p] = "post"
    /\ posts' = Append(posts, [by |-> p, lines |-> body[p], outcome |-> outcome])
    /\ resp' = [resp EXCEPT ![p] = outcome]
    /\ pc' = [pc EXCEPT ![p] = "punlock"]
    /\ UNCHANGED <<registry, adapters, Lines, pmu, cmu, done, locals, body, err, batch,
                   spawned, counters, forwarded, written, dispatched>>

\* deferred: c.payload.mu.Unlock()
SendPUnlock(p) ==
    /\ pc[p] = "punlock"
    /\ pmu' = None
    /\ pc' = [pc EXCEPT ![p] = "flush"]
    /\ UNCHANGED <<registry, adapters, Lines, cmu, done, locals, slocals,
                   spawned, counters, posts, forwarded, written, dispatched>>

\* variant: the buffer is kept when json.Marshal failed
SendFlushUnlessErr(p) ==
    /\ pc[p] = "flush"
    /\ pmu = None
    /\ Lines' = IF err[p] THEN Lines ELSE <<>>
    /\ written' = IF err[p] THEN written ELSE {}
    /\ pc' = [pc EXCEPT ![p] = "unlockc"]
    /\ UNCHANGED <<registry, adapters, pmu, cmu, done, locals, slocals,
                   spawned, counters, posts, forwarded, dispatched>>

\* variant: the buffer is kept when the POST did not succeed
SendFlushOnSuccess(p) ==
    /\ pc[p] = "flush"
    /\ pmu = None
    /\ Lines' = IF resp[p] \in {"error", "rejected"} THEN Lines ELSE <<>>
    /\ written' = IF resp[p] \in {"error", "rejected"} THEN written ELSE {}
    /\ pc' = [pc EXCEPT ![p] = "unlockc"]
    /\ UNCHANGED <<registry, adapters, pmu, cmu, done, locals, slocals,
                   spawned, counters, posts, forwarded, dispatched>>

\* variant: send returns without flushing the buffer
SendFlushSkipped(p) ==
    /\ pc[p] = "flush"
    /\ pmu = None
    /\ pc' = [pc EXCEPT ![p] = "unlockc"]
    /\ UNCHANGED <<registry, adapters, Lines, pmu, cmu, done, locals, slocals,
                   spawned, counters, posts, forwarded, written, dispatched>>

\* deferred: c.payload.Flush()  (p.mu.Lock(); p.Lines = []line{}; p.mu.Unlock())
SendFlush(p) ==
    /\ pc[p] = "flush"
    /\ pmu = None
    /\ Lines' = <<>>
    /\ written' = {}
    /\ pc' = [pc EXCEPT ![p] = "unlockc"]
    /\ UNCHANGED <<registry, adapters, pmu, cmu, done, locals, slocals,
                   spawned, counters, posts, forwarded, dispatched>>

\* deferred: c.mu.Unlock(), and send returns to its caller
SendUnlock(p) ==
    /\ pc[p] = "unlockc"
    /\ cmu' = None
    /\ body' = [body EXCEPT ![p] = <<>>]
    /\ err' = [err EXCEPT ![p] = FALSE]
    /\ resp' = [resp EXCEPT ![p] = "none"]
    /\ batch' = [batch EXCEPT ![p] = <<>>]
    /\ pc' = [pc EXCEPT ![p] = AfterSend(p)]
    /\ UNCHANGED <<registry, adapters, Lines, pmu, done, locals,
                   spawned, counters, posts, forwarded, written, dispatched>>

(* ---------------- monitor.run ---------------- *)

\* variant: the timer goes on ticking after the monitor has returned
MonTickAfterStop ==
    /\ pc[Mon] \in {"select", "stopped"}
    /\ pc' = [pc EXCEPT ![Mon] = "lockc"]
    /\ UNCHANGED <<registry, adapters, Lines, pmu, cmu, done, locals, slocals,
                   spawned, counters, posts, forwarded, written, dispatched>>

\* variant: the timer case of the select does nothing
MonTickIdle ==
    /\ pc[Mon] = "select"
    /\ pc' = [pc EXCEPT ![Mon] = "select"]
    /\ UNCHANGED <<registry, adapters, Lines, pmu, cmu, done, locals, slocals,
                   spawned, counters, posts, forwarded, written, dispatched>>

\* case <-time.After(time.Minute): m.client.send(true)
MonTick ==
    /\ pc[Mon] = "select"
    /\ pc' = [pc EXCEPT ![Mon] = "lockc"]
    /\ UNCHANGED <<registry, adapters, Lines, pmu, cmu, done, locals, slocals,
                   spawned, counters, posts, forwarded, written, dispatched>>

\* variant: the monitor takes the shutdown signal and goes on waiting
MonDoneGoesOn ==
    /\ pc[Mon] = "select"
    /\ done > 0
    /\ done' = done - 1
    /\ pc' = [pc EXCEPT ![Mon] = "select"]
    /\ UNCHANGED <<registry, adapters, Lines, pmu, cmu, locals, slocals,
                   spawned, counters, posts, forwarded, written, dispatched>>

\* case <-m.done: return
MonDone ==
    /\ pc[Mon] = "select"
    /\ done > 0
    /\ done' = done - 1
    /\ pc' = [pc EXCEPT ![Mon] = "stopped"]
    /\ UNCHANGED <<registry, adapters, Lines, pmu, cmu, locals, slocals,
                   spawned, counters, posts, forwarded, written, dispatched>>

(* ---------------- dnalog.Close ---------------- *)

\* if l.client != nil { l.client.send(true) ...
\* With l.client == nil, Close only returns nil.
CloseStart(t, a, max) ==
    /\ pc[t] = "idle"
    /\ a \in 1..Len(adapters)
    /\ ncloses < max
    /\ ncloses' = ncloses + 1
    /\ cur' = [cur EXCEPT ![t] = IF adapters[a] # 0 THEN a ELSE 0]
    /\ pc' = [pc EXCEPT ![t] = IF adapters[a] # 0 THEN "lockc" ELSE "idle"]
    /\ UNCHANGED <<registry, adapters, Lines, pmu, cmu, done, rec, tmp, ready, cref, slocals,
                   spawned, nlogs, nbad, posts, forwarded, written, dispatched>>

\* the operand l.client.monitor.done of the channel send is evaluated: l.client
\* is read again; when another Close has set it to nil in the meantime the
\* dereference panics
CloseChan(t) ==
    /\ pc[t] = "signal"
    /\ \E c \in ClientRead(t) : pc' = [pc EXCEPT ![t] = IF c = 0 THEN "panic" ELSE "chan"]
    /\ UNCHANGED <<registry, adapters, Lines, pmu, cmu, done, locals, slocals,
                   spawned, counters, posts, forwarded, written, dispatched>>

\* ... <- struct{}{}: the send on the channel of capacity 1 waits while the
\* channel is full
CloseSignal(t) ==
    /\ pc[t] = "chan"
    /\ done < 1
    /\ done' = done + 1
    /\ pc' = [pc EXCEPT ![t] = "clear"]
    /\ UNCHANGED <<registry, adapters, Lines, pmu, cmu, locals, slocals,
                   spawned, counters, posts, forwarded, written, dispatched>>

\* l.client = nil; return nil
CloseClear(t) ==
    /\ pc[t] = "clear"
    /\ adapters' = [adapters EXCEPT ![cur[t]] = 0]
    /\ cur' = [cur EXCEPT ![t] = 0]
    /\ pc' = [pc EXCEPT ![t] = "idle"]
    /\ UNCHANGED <<registry, Lines, pmu, cmu, done, rec, tmp, ready, cref, slocals,
                   spawned, counters, posts, forwarded, written, dispatched>>

(* ---------------- specifications ---------------- *)

SendStep(p, outcomes) ==
    \/ SendLock(p)
    \/ SendSize(p)
    \/ SendMarshal(p)
    \/ \E o \in outcomes : SendPost(p, o)
    \/ SendPUnlock(p)
    \/ SendFlush(p)
    \/ SendUnlock(p)

WriteStep(t) ==
    \/ WriteLock(t)
    \/ WriteStore(t)
    \/ LogDispatch(t)

\* The general specification: threads create adapters, log and close
\* concurrently with the monitor goroutine.
Next ==
    \/ \E t \in Threads : NewStart(t, MaxAdapters)
    \/ \E t \in Threads : NewLock(t)
    \/ \E t \in Threads : NewCreate(t)
    \/ \E t \in Threads : NewReturn(t)
    \/ \E t \in Threads, a \in 1..MaxAdapters, ok \in BOOLEAN : LogStart(t, a, ok, MaxLogs)
    \/ \E t \in Threads : WriteStep(t)
    \/ \E t \in Threads, a \in 1..MaxAdapters : CloseStart(t, a, MaxCloses)
    \/ \E t \in Threads : CloseChan(t)
    \/ \E t \in Threads : CloseSignal(t)
    \/ \E t \in Threads : CloseClear(t)
    \/ MonTick
    \/ MonDone
    \/ \E p \in {Mon} \cup Threads : SendStep(p, PostOutcomes)

Spec == Init /\ [][Next]_vars

\* The threshold scenario: the key is configured, one thread creates the
\* adapter and logs FillLogs records in sequence; the sends dispatched by
\* Log run concurrently.  No monitor tick, no Close.
InitFill == InitWith({"key"})

NextFill ==
    \/ NewStart(1, 1)
    \/ NewLock(1)
    \/ NewCreate(1)
    \/ NewReturn(1)
    \/ LogStart(1, 1, TRUE, FillLogs)
    \/ WriteStep(1)
    \/ \E g \in Gors : GoStart(g)
    \/ \E g \in Gors : SendStep(g, {"ok"})

SpecFill == InitFill /\ [][NextFill]_vars

\* The state after thread 1 has created the adapter (key configured) and
\* logged n well-formed records in sequence through it, nothing having been
\* sent: the monitor waits in its select and every thread is idle.
Filled(n) == [i \in 1..n |-> [id |-> i, ok |-> TRUE]]

InitAfter(n) ==
    /\ apikey = "key"
    /\ globalClient = 1
    /\ dnaGlobalLock = None
    /\ clientsCreated = 1
    /\ monitorsStarted = 1
    /\ adapters = <<1>>
    /\ newCalls = 1
    /\ Lines = Filled(n)
    /\ pmu = None
    /\ cmu = None
    /\ done = 0
    /\ pc = [p \in Procs |-> IF p = Mon THEN "select" ELSE "idle"]
    /\ cur = [t \in Threads |-> 0]
    /\ rec = [t \in Threads |-> NoRec]
    /\ tmp = [t \in Threads |-> <<>>]
    /\ ready = [t \in Threads |-> FALSE]
    /\ cref = [t \in Threads |-> 0]
    /\ body = [p \in Procs |-> <<>>]
    /\ spawned = 0
    /\ nlogs = n
    /\ nbad = 0
    /\ ncloses = 0
    /\ posts = <<>>
    /\ forwarded = n
    /\ written = 1..n
    /\ err = [p \in Procs |-> FALSE]
    /\ resp = [p \in Procs |-> "none"]
    /\ batch = [p \in Procs |-> <<>>]
    /\ dispatched = 0

\* The registry scenario: threads create adapters concurrently, with or
\* without the key, and log through them.
NextReg ==
    \/ \E t \in Threads : NewStart(t, MaxAdapters)
    \/ \E t \in Threads : NewLock(t)
    \/ \E t \in Threads : NewCreate(t)
    \/ \E t \in Threads : NewReturn(t)
    \/ \E t \in Threads, a \in 1..MaxAdapters : LogStart(t, a, TRUE, MaxLogs)
    \/ \E t \in Threads : WriteStep(t)

SpecReg == Init /\ [][NextReg]_vars

\* The delivery scenario starts when the adapter has been created: thread 1
\* logs through it (records that cannot be marshalled included) and the other
\* threads close it while the monitor ticks; every POST may fail.
InitSend == InitAfter(0)

Closers == Threads \ {1}

NextSend ==
    \/ \E ok \in BOOLEAN : LogStart(1, 1, ok, MaxLogs)
    \/ WriteStep(1)
    \/ \E t \in Closers : CloseStart(t, 1, MaxCloses)
    \/ \E t \in Closers : CloseChan(t)
    \/ \E t \in Closers : CloseSignal(t)
    \/ \E t \in Closers : CloseClear(t)
    \/ MonTick
    \/ MonDone
    \/ \E p \in {Mon} \cup Closers : SendStep(p, PostOutcomes)

SpecSend == InitSend /\ [][NextSend]_vars

\* The producers scenario: every thread logs through the adapter while the
\* monitor ticks and flushes.
NextWrite ==
    \/ \E t \in Threads : LogStart(t, 1, TRUE, MaxLogs)
    \/ \E t \in Threads : WriteStep(t)
    \/ MonTick
    \/ SendStep(Mon, {"ok"})

SpecWrite == InitSend /\ [][NextWrite]_vars

\* The mixed scenario starts where the threshold scenario arrives after
\* maxNumLines - NearGap records: from there thread 1 goes on logging while
\* the other threads close, concurrently with the dispatched sends and the
\* monitor.
InitNear == InitAfter(maxNumLines - NearGap)

NextNear ==
    \/ LogStart(1, 1, TRUE, maxNumLines - NearGap + NearLogs)
    \/ WriteStep(1)
    \/ \E g \in Gors : GoStart(g)
    \/ \E t \in Closers : CloseStart(t, 1, MaxCloses)
    \/ \E t \in Closers : CloseChan(t)
    \/ \E t \in Closers : CloseSignal(t)
    \/ \E t \in Closers : CloseClear(t)
    \/ MonTick
    \/ MonDone
    \/ \E p \in Procs : SendStep(p, {"ok"})

SpecNear == InitNear /\ [][NextNear]_vars

\* The lifecycle scenario: with or without the key, thread 1 creates adapters
\* and logs through them while the other threads close them; the monitor
\* ticks until it gets the shutdown signal.
NextLife ==
    \/ NewStart(1, MaxAdapters)
    \/ NewLock(1)
    \/ NewCreate(1)
    \/ NewReturn(1)
    \/ \E a \in 1..MaxAdapters : LogStart(1, a, TRUE, MaxLogs)
    \/ WriteStep(1)
    \/ \E t \in Closers, a \in 1..MaxAdapters : CloseStart(t, a, MaxCloses)
    \/ \E t \in Closers : CloseChan(t)
    \/ \E t \in Closers : CloseSignal(t)
    \/ \E t \in Closers : CloseClear(t)
    \/ MonTick
    \/ MonDone
    \/ \E p \in {Mon} \cup Closers : SendStep(p, {"ok"})

SpecLife == Init /\ [][NextLife]_vars

\* The shutdown scenario starts like the mixed scenario; thread 1 logs and
\* then closes the adapter, while the sends dispatched by Log and the monitor
\* run.  Every process that can take a step eventually takes it, a process
\* waiting for a mutex eventually gets it (sync.Mutex hands the lock to a
\* waiter that has waited for more than a millisecond), every POST returns,
\* and the monitor's select takes a shutdown signal that is waiting in the
\* channel (the timer of a fresh select fires a minute later).
NextShut ==
    \/ LogStart(1, 1, TRUE, maxNumLines - NearGap + NearLogs)
    \/ WriteStep(1)
    \/ \E g \in Gors : GoStart(g)
    \/ CloseStart(1, 1, MaxCloses)
    \/ CloseChan(1)
    \/ CloseSignal(1)
    \/ CloseClear(1)
    \/ MonTick
    \/ MonDone
    \/ \E p \in {Mon, 1} \cup Gors : SendStep(p, {"ok"})

FairShut ==
    /\ SF_vars(WriteStep(1))
    /\ WF_vars(\E g \in Gors : GoStart(g))
    /\ WF_vars(CloseChan(1) \/ CloseSignal(1) \/ CloseClear(1))
    /\ \A p \in {Mon, 1} \cup Gors : SF_vars(SendStep(p, {"ok"}))
    /\ SF_vars(MonDone)

SpecShut == InitNear /\ [][NextShut]_vars /\ FairShut

\* The keyvals scenario: with or without the key, thread 1 creates the adapter
\* and the threads call Log with every sequence of at most MaxKv values.
NextKv ==
    \/ NewStart(1, 1)
    \/ NewLock(1)
    \/ NewCreate(1)
    \/ NewReturn(1)
    \/ \E t \in Threads, kv \in Keyvals : LogKeyvals(t, 1, kv, MaxLogs)
    \/ \E t \in Threads : WriteStep(t)

SpecKv == Init /\ [][NextKv]_vars

\* The staleness scenario starts with the empty buffer: thread 1 logs a few
\* records, far from the threshold, and may then close the adapter, while the
\* monitor ticks.  The timer eventually fires while the monitor is in its
\* select, every process that can take a step eventually takes it, a process
\* waiting for a mutex eventually gets it, and every POST returns.
NextTick ==
    \/ LogStart(1, 1, TRUE, MaxLogs)
    \/ WriteStep(1)
    \/ CloseStart(1, 1, MaxCloses)
    \/ CloseChan(1)
    \/ CloseSignal(1)
    \/ CloseClear(1)
    \/ MonTick
    \/ MonDone
    \/ \E p \in {Mon, 1} : SendStep(p, {"ok"})

FairTick ==
    /\ SF_vars(WriteStep(1))
    /\ WF_vars(MonTick)
    /\ WF_vars(CloseChan(1) \/ CloseSignal(1) \/ CloseClear(1))
    /\ \A p \in {Mon, 1} : SF_vars(SendStep(p, {"ok"}))

SpecTick == InitSend /\ [][NextTick]_vars /\ FairTick

\* The closing scenario starts like the mixed scenario: thread 1 logs across
\* the threshold and every thread may call Close on the adapter, once each at
\* most, concurrently with the dispatched sends and the monitor.
NextStop ==
    \/ LogStart(1, 1, TRUE, maxNumLines - NearGap + NearLogs)
    \/ WriteStep(1)
    \/ \E g \in Gors : GoStart(g)
    \/ \E t \in Threads : CloseStart(t, 1, NumThreads)
    \/ \E t \in Threads : CloseChan(t)
    \/ \E t \in Threads : CloseSignal(t)
    \/ \E t \in Threads : CloseClear(t)
    \/ MonTick
    \/ MonDone
    \/ \E p \in Procs : SendStep(p, {"ok"})

SpecStop == InitNear /\ [][NextStop]_vars

\* InitNear is a state the threshold scenario reaches, InitSend one the
\* general specification reaches
NearReached ==
    /\ Lines = Filled(maxNumLines - NearGap)
    /\ nlogs = maxNumLines - NearGap
    /\ forwarded = nlogs
    /\ posts = <<>>
    /\ dispatched = 0
    /\ \A t \in Threads : pc[t] = "idle"

SendReached ==
    /\ apikey = "key"
    /\ adapters = <<1>>
    /\ pc = [p \in Procs |-> IF p = Mon THEN "select" ELSE "idle"]
    /\ nlogs = 0
    /\ ncloses = 0

(* ---------------- properties ---------------- *)

\* the positions of send between the empty-check and the flush
InFlight == {"size", "plock", "post", "punlock", "flush"}

IsPrefix(a, b) == Len(a) <= Len(b) /\ \A i \in 1..Len(a) : b[i] = a[i]

\* C1 as stated: Write returns true for the append that brings the length to
\* exactly maxNumLines and for no other append.
Returns(t) == pc[t] = "wstore" /\ pc'[t] = "dispatch"

C1_OnlyAtCrossing ==
    [][\A t \in Threads : Returns(t) => (ready'[t] <=> Len(Lines') = maxNumLines)]_vars

\* C1 amended: Write returns true for the append that brings the length to
\* maxNumLines and for every later append made before the buffer is flushed;
\* after a flush it returns false until maxNumLines lines have been appended
\* since that flush.
C1_UntilFlushed ==
    [][\A t \in Threads :
          Returns(t) => (ready'[t] <=> Cardinality(written') >= maxNumLines)]_vars

C1_Witness ==
    \E t \in Threads : pc[t] = "dispatch" /\ ready[t] /\ Len(Lines) > maxNumLines

\* C2: one producer logging FillLogs records in sequence dispatches exactly one
\* send, after the maxNumLines-th record; every POST carries exactly the first
\* maxNumLines records, and when everything has run the remaining records are
\* in the buffer.
FillQuiet ==
    /\ nlogs = FillLogs
    /\ pc[1] = "idle"
    /\ spawned = 0
    /\ \A g \in Gors : pc[g] = "idle"

C2_OneDelivery ==
    /\ dispatched <= 1
    /\ dispatched = 1 => nlogs >= maxNumLines
    /\ \A i \in 1..Len(posts) : posts[i].lines = Filled(maxNumLines)
    /\ FillQuiet => /\ Len(posts) = 1
                    /\ Ids(Lines) = (maxNumLines + 1)..FillLogs
                    /\ Len(Lines) = FillLogs - maxNumLines

\* C3: with the key configured every newDNALogger call returns an adapter
\* whose client is the shared Client.
C3_EveryAdapterShares ==
    \A t \in Threads :
        (pc[t] = "newret" /\ apikey # "") => (cref[t] # 0 /\ cref[t] = globalClient)

\* C4: at most one Client is constructed and at most one monitor goroutine is
\* started, however the newDNALogger calls interleave.
C4_Singleton ==
    /\ clientsCreated <= 1
    /\ monitorsStarted <= 1
    /\ globalClient \in {0, 1}
    /\ globalClient = 0 <=> clientsCreated = 0

C4_Witness ==
    \E t, u \in Threads :
        /\ t # u
        /\ pc[t] = "glock"
        /\ pc[u] = "newret"
        /\ dnaGlobalLock = u
        /\ clientsCreated = 1

\* C5 as stated: after a send whose json.Marshal failed, the lines that were in
\* the buffer are still there, in the same order.
C5_Retained ==
    \A p \in Procs : (pc[p] = "unlockc" /\ err[p]) => IsPrefix(batch[p], Lines)

\* C5 amended: a send whose json.Marshal failed makes no POST, and the buffer
\* is flushed all the same: none of the lines it tried to serialize is in the
\* buffer when it returns.
C5_Dropped ==
    \A p \in Procs :
        (pc[p] = "unlockc" /\ err[p]) =>
            /\ resp[p] = "none"
            /\ \A i \in 1..Len(posts) : Ids(posts[i].lines) \cap Ids(batch[p]) = {}
            /\ Ids(batch[p]) \cap Ids(Lines) = {}

C5_Witness ==
    \E p \in Procs : pc[p] = "unlockc" /\ err[p] /\ Len(batch[p]) > 0

\* C6: the lines of a POST that failed (transport error or status >= 400) are
\* not in the buffer once that send has flushed, and no later POST carries them.
PostRunning(i) == i = Len(posts) /\ pc[posts[i].by] \in {"punlock", "flush"}

C6_DropOnFailure ==
    \A i \in 1..Len(posts) :
        posts[i].outcome \in {"error", "rejected"} =>
            /\ ~PostRunning(i) => Ids(posts[i].lines) \cap Ids(Lines) = {}
            /\ \A j \in (i + 1)..Len(posts) :
                   Ids(posts[i].lines) \cap Ids(posts[j].lines) = {}

C6_Witness ==
    /\ Len(posts) = 2
    /\ posts[1].outcome = "error"
    /\ posts[2].outcome = "rejected"
    /\ ~PostRunning(2)
    /\ Len(Lines) = 0

\* C7: a send that found the buffer empty goes no further: whoever is past the
\* empty-check has a non-empty buffer before it, and no POST carries an empty
\* payload.
C7_EmptyIsNoOp ==
    /\ \A p \in Procs : pc[p] \in (InFlight \ {"size"}) => Len(Lines) > 0
    /\ \A i \in 1..Len(posts) : Len(posts[i].lines) > 0

C7_Witness ==
    /\ pc[Mon] = "unlockc"
    /\ \E t \in Threads : pc[t] = "lockc"
    /\ Len(Lines) = 0
    /\ posts = <<>>
    /\ nbad = 0
    /\ nlogs = 0

\* C8: no POST is in flight while the buffer's lock is held, so that no
\* producer waits in Write for the duration of a POST.
C8_NoPostUnderLock ==
    \A p \in Procs : pc[p] = "post" => pmu # p

\* C9: at most one execution of send is between the empty-check and the flush.
C9_OneInFlight ==
    Cardinality({p \in Procs : pc[p] \in InFlight}) <= 1

C9_Witness ==
    /\ \E g \in Gors : pc[g] = "post"
    /\ pc[Mon] = "lockc"
    /\ \E t \in Threads : pc[t] = "lockc"
    /\ \E h \in Gors : pc[h] = "lockc"

\* C10: with no flush in between, the buffer holds exactly the lines of the
\* completed appends, each of them once.
C10_NoLostAppend ==
    /\ Ids(Lines) = written
    /\ Len(Lines) = Cardinality(written)

C10_Witness ==
    /\ Len(Lines) = 2
    /\ Lines[1].id = 2
    /\ Lines[2].id = 1

\* C11: Write returns true exactly when the buffer holds at least maxNumLines
\* lines right after the append; and as long as fewer than maxNumLines appends
\* have completed (no send having run), the buffer holds one line per completed
\* append and nothing has been dispatched or posted.
Appended == nlogs - Cardinality({t \in Threads : pc[t] \in {"wlock", "wstore"}})

C11_TrueIffFull ==
    /\ [][\A t \in Threads :
             Returns(t) => (ready'[t] <=> Len(Lines') >= maxNumLines)]_vars
    /\ [](Appended < maxNumLines =>
             /\ Len(Lines) = Appended
             /\ \A t \in Threads : ~ready[t]
             /\ dispatched = 0
             /\ spawned = 0
             /\ posts = <<>>)

C11_Witness ==
    /\ pc[1] = "dispatch"
    /\ ~ready[1]
    /\ Len(Lines) = maxNumLines - 1
    /\ dispatched = 0

\* C12: without the key no client and no monitor exist, every adapter has a nil
\* client, and whatever Log and Close calls are made the buffer stays empty,
\* nothing is dispatched or posted, no thread enters Write or send, and every
\* Log is passed on to the next logger.
C12_DisabledIsNoOp ==
    apikey = "" =>
        /\ clientsCreated = 0
        /\ monitorsStarted = 0
        /\ globalClient = 0
        /\ pc[Mon] = "off"
        /\ \A a \in 1..Len(adapters) : adapters[a] = 0
        /\ \A t \in Threads : pc[t] \in {"idle", "newret"}
        /\ Lines = <<>>
        /\ written = {}
        /\ spawned = 0
        /\ dispatched = 0
        /\ posts = <<>>
        /\ done = 0
        /\ forwarded = nlogs

C12_Witness ==
    /\ apikey = ""
    /\ Len(adapters) = MaxAdapters
    /\ nlogs = MaxLogs
    /\ ncloses = MaxCloses

\* C13: Close on the adapter that holds the client reaches the channel send
\* only by returning from its own send; the channel has room whenever Close is
\* about to signal; a Close that has started returns with the client field
\* cleared; and once the signal is sent the monitor eventually stops, whatever
\* sends are in flight.
Closing(t) == pc[t] \in {"lockc", "size", "plock", "post", "punlock", "flush",
                          "unlockc", "signal", "chan", "clear"}

C13_CloseStopsMonitor ==
    /\ [][(pc[1] # "signal" /\ pc'[1] = "signal") => (pc[1] = "unlockc" /\ cmu = 1)]_vars
    /\ [](pc[1] = "chan" => done = 0)
    /\ [](pc[1] # "panic")
    /\ (Closing(1) ~> (pc[1] = "idle" /\ adapters[1] = 0))
    /\ (pc[1] = "clear" ~> pc[Mon] = "stopped")
    /\ [](pc[Mon] = "stopped" => [](pc[Mon] = "stopped"))

C13_Witness ==
    /\ pc[1] = "lockc"
    /\ pc[Mon] = "lockc"
    /\ \E g \in Gors : pc[g] = "post"

\* C14: whatever keyvals are passed, Log does not panic in the caller, and
\* every Log call that has returned has called l.next.Log once.
Logging(t) == pc[t] \in {"wlock", "wstore", "dispatch"}

C14_LogNeverFails ==
    /\ \A t \in Threads : pc[t] # "panic"
    /\ forwarded = nlogs - Cardinality({t \in Threads : Logging(t)})

\* C15: no two POSTs carry the same record, and the payload a send has just
\* serialized shares no record with any POST made before.
C15_AtMostOnePost ==
    /\ \A i, j \in 1..Len(posts) :
           i < j => Ids(posts[i].lines) \cap Ids(posts[j].lines) = {}
    /\ \A p \in Procs :
           pc[p] = "post" =>
               \A i \in 1..Len(posts) : Ids(posts[i].lines) \cap Ids(batch[p]) = {}

C15_Witness ==
    /\ Len(posts) = 2
    /\ posts[1].by \in Gors
    /\ Len(posts[1].lines) >= maxNumLines
    /\ posts[2].by = Mon
    /\ Len(posts[2].lines) > 0
    /\ \E t \in Closers : pc[t] = "size"

\* C16: the monitor goroutine, once started, is running until it takes the
\* shutdown signal from its select and is stopped for ever after; while it
\* runs, leaving the select by the timer starts one send, which returns to the
\* select; only a monitor inside send makes a POST; and the monitor is started
\* once at most, also by newDNALogger calls made after it has stopped.
MonPosted == Len(posts') = Len(posts) + 1 /\ posts'[Len(posts')].by = Mon

C16_MonitorLifecycle ==
    /\ [][/\ pc[Mon] = "stopped" => (pc'[Mon] = "stopped" /\ ~MonPosted)
          /\ (pc[Mon] # "stopped" /\ pc'[Mon] = "stopped") =>
                 (pc[Mon] = "select" /\ done > 0 /\ done' = done - 1)
          /\ (pc[Mon] = "select" /\ pc'[Mon] \notin {"select", "stopped"}) =>
                 pc'[Mon] = "lockc"
          /\ (pc[Mon] = "unlockc" /\ pc'[Mon] # "unlockc") => pc'[Mon] = "select"
          /\ pc[Mon] # "off" => pc'[Mon] # "off"
          /\ MonPosted => (pc[Mon] = "post" /\ cmu = Mon)
          /\ monitorsStarted' # monitorsStarted =>
                 (pc[Mon] = "off" /\ pc'[Mon] = "select")]_vars
    /\ [](monitorsStarted <= 1 /\ (pc[Mon] = "off" <=> monitorsStarted = 0))

C16_Witness ==
    /\ pc[Mon] = "stopped"
    /\ pc[1] = "newret"
    /\ dnaGlobalLock = 1
    /\ \E i \in 1..Len(posts) : posts[i].by = Mon

\* C17: a record that is in the buffer while the monitor runs eventually is
\* no longer in the buffer, unless the monitor is stopped first; the buffer
\* stays below the threshold throughout.
C17_EventuallyLeaves ==
    /\ \A id \in 1..MaxLogs :
           (id \in Ids(Lines) /\ pc[Mon] # "stopped") ~>
               (id \notin Ids(Lines) \/ pc[Mon] = "stopped")
    /\ [](Len(Lines) < maxNumLines /\ dispatched = 0)

C17_Witness ==
    /\ Len(posts) = 1
    /\ posts[1].by = Mon
    /\ Ids(posts[1].lines) = {1}
    /\ Lines = <<>>
    /\ pc[Mon] = "select"
    /\ ncloses = 0

\* C18: whenever the buffer holds maxNumLines lines or more, a send triggered
\* by the threshold is outstanding: the Log call whose Write returned true is at
\* its go statement, or a goroutine it started has not run yet, or such a
\* goroutine is inside send and has not flushed yet.
Outstanding ==
    \/ \E t \in Threads : pc[t] = "dispatch" /\ ready[t]
    \/ spawned > 0
    \/ \E g \in Gors : pc[g] \in {"lockc"} \cup InFlight

C18_ThresholdHasDelivery ==
    Len(Lines) >= maxNumLines => Outstanding

C18_Witness ==
    /\ Len(Lines) > maxNumLines
    /\ pc[Mon] = "post"
    /\ spawned = 0
    /\ \A t \in Threads : pc[t] = "idle"

\* C19: the lines that the flush at the end of a send removes from the buffer
\* are lines that this send had before it when it serialized the payload.
Flushes(p) == pc[p] = "flush" /\ pc'[p] = "unlockc"

C19_FlushOnlySerialized ==
    [][\A p \in Procs : Flushes(p) => Ids(Lines) \subseteq Ids(batch[p])]_vars

\* C20: no thread waits for ever: whoever holds client.mu or the buffer's lock
\* is inside send or Write and about to release it, and no Close waits on the
\* full shutdown channel after the monitor, its only receiver, has stopped.
C20_NoThreadWaitsForever ==
    /\ cmu # None => pc[cmu] \in InFlight \cup {"unlockc"}
    /\ pmu # None => pc[pmu] \in {"wstore", "post", "punlock"}
    /\ \A t \in Threads : ~(pc[t] = "chan" /\ done = 1 /\ pc[Mon] = "stopped")

====
